---- MODULE Spec2Model ----
(***************************************************************************)
(* Preprocessing (src/preprocessing.py) and synchronized batch             *)
(* normalization (src/research/deeplab/sync_bn.py).                        *)
(*                                                                         *)
(* A rank-3 tensor [height, width, channels] is a sequence of rows, a row  *)
(* a sequence of pixels, a pixel a sequence of channel values.  Values in  *)
(* the preprocessing part are integers (float tensors hold integer-valued  *)
(* floats there).  Batch-norm statistics are exact rationals <<n, d>>.     *)
(***************************************************************************)
EXTENDS Integers, Sequences, FiniteSets, TLC

VARIABLES
  \* ---- preprocessing pipeline ----
  image,          \* current image tensor
  label,          \* current label tensor
  in_image,       \* operand image of the last preprocessing call
  in_label,       \* operand label of the last preprocessing call
  op,             \* last preprocessing call: "none", "crop", "flip"
  called,         \* preprocessing functions called so far
  crop_height, crop_width, ignore_label,   \* arguments of the last crop
  offset_h, offset_w,                      \* window drawn by tf.random_crop
  uniform_random,                          \* draw of the last flip (hundredths)
  \* ---- batch norm ----
  cfg,            \* arguments of batch_norm shared by the replicas
  is_training,    \* replica -> is_training argument
  device,         \* replica -> device index the replica's ops are placed on
  gamma, beta, moving_mean, moving_var,    \* the four variables of the scope
  inputs,         \* replica -> fed batch (one channel)
  nccl,           \* shared_name -> contributions <<replica, tensor, value>>
  stats,          \* replica -> <<[mean, var]>> used for normalization, or None
  pending,        \* replica -> value tensors of its update ops, computed
  assigned,       \* replica -> names of its assign ops that have run
  step_start,     \* moving statistics when the current step started
  outputs,        \* replica -> returned output tensor or None
  step            \* training/evaluation steps started

pre_vars == <<image, label, in_image, in_label, op, called, crop_height,
              crop_width, ignore_label, offset_h, offset_w, uniform_random>>
bn_vars  == <<cfg, is_training, device, gamma, beta, moving_mean, moving_var,
              inputs, nccl, stats, pending, assigned, step_start, outputs,
              step>>
vars     == <<pre_vars, bn_vars>>

\* An absent tensor; a present one is a non-empty sequence.
None == <<>>

(***************************************************************************)
(* Bounds                                                                  *)
(***************************************************************************)
MaxDim   == 2      \* heights, widths and crop sizes range over 1..MaxDim

IgnoreLabels  == {0, 255}
UniformDraws  == {0, 49, 50, 99}   \* tf.random_uniform([], 0, 1.0) * 100

(***************************************************************************)
(* Numeric conversions of src/preprocessing.py                             *)
(***************************************************************************)
Abs(v) == IF v < 0 THEN -v ELSE v

Max(a, b) == IF a >= b THEN a ELSE b

RECURSIVE Pow2(_)
Pow2(n) == IF n = 0 THEN 1 ELSE 2 * Pow2(n - 1)

\* Spacing of float32 values around magnitude a (24-bit significand).
RECURSIVE Ulp(_)
Ulp(a) == IF a < Pow2(24) THEN 1 ELSE 2 * Ulp(a \div 2)

\* tf.to_float on an integer: round to nearest float32, ties to even.
to_float(v) ==
  LET a == Abs(v)
      u == Ulp(a)
      q == a \div u
      r == a % u
      up == (2 * r > u) \/ (2 * r = u /\ q % 2 = 1)
      m == (IF up THEN q + 1 ELSE q) * u
  IN  IF v < 0 THEN -m ELSE m

\* float32 addition of two integer-valued floats: exact sum, then rounded.
float_add(a, b) == to_float(a + b)

\* tf.to_int32 truncates toward zero; the floats of the label channel are
\* integer-valued, so nothing is cut off.
to_int32(v) == v

(***************************************************************************)
(* Tensor helpers                                                          *)
(***************************************************************************)
Height(t)   == Len(t)
Width(t)    == Len(t[1])
Channels(t) == Len(t[1][1])

\* tf.concat([a, b], axis=2)
concat_axis2(a, b) ==
  [i \in 1..Height(a) |-> [j \in 1..Width(a) |-> a[i][j] \o b[i][j]]]

\* tf.image.pad_to_bounding_box(t, 0, 0, target_height, target_width):
\* zero fill below and to the right of the original extent.
pad_to_bounding_box(t, target_height, target_width) ==
  [i \in 1..target_height |-> [j \in 1..target_width |->
     IF i <= Height(t) /\ j <= Width(t)
       THEN t[i][j]
       ELSE [k \in 1..Channels(t) |-> 0]]]

\* The window tf.random_crop cuts once its offsets are drawn.
crop_window(t, size, oh, ow) ==
  [i \in 1..size[1] |-> [j \in 1..size[2] |->
     SubSeq(t[oh + i][ow + j], 1, size[3])]]

\* t[:, :, lo:hi] with Python's half-open, zero-based bounds.
slice_channels(t, lo, hi) ==
  [i \in 1..Height(t) |-> [j \in 1..Width(t) |-> SubSeq(t[i][j], lo + 1, hi)]]

\* tf.reverse(t, [1]): reverse along the width axis.
reverse_width(t) ==
  [i \in 1..Height(t) |-> [j \in 1..Width(t) |-> t[i][Width(t) + 1 - j]]]

(***************************************************************************)
(* random_crop_or_pad_image_and_label                                      *)
(***************************************************************************)
\* The size argument of tf.random_crop.
CropSizeSwapped(ch, cw) == <<cw, ch, 4>>
CropSize(ch, cw) == <<ch, cw, 4>>

\* Target extent of the padding.
PadTarget(crop, current) == Max(crop, current)

\* label = tf.to_float(label - ignore_label)
OffsetLabel(lbl, ign) ==
  [i \in 1..Height(lbl) |-> [j \in 1..Width(lbl) |->
     [k \in 1..Channels(lbl) |-> to_float(lbl[i][j][k] - ign)]]]

\* label_crop += ignore_label; label_crop = tf.to_int32(label_crop)
RestoreLabelNoAdd(lbl, ign) ==
  [i \in 1..Height(lbl) |-> [j \in 1..Width(lbl) |->
     [k \in 1..Channels(lbl) |-> to_int32(lbl[i][j][k])]]]
RestoreLabel(lbl, ign) ==
  [i \in 1..Height(lbl) |-> [j \in 1..Width(lbl) |->
     [k \in 1..Channels(lbl) |->
        to_int32(float_add(lbl[i][j][k], to_float(ign)))]]]

\* The padded image-and-label tensor.
image_and_label_pad(img, lbl, ch, cw, ign) ==
  pad_to_bounding_box(concat_axis2(img, OffsetLabel(lbl, ign)),
                      PadTarget(ch, Height(img)), PadTarget(cw, Width(img)))

\* Result of the call for the window drawn at (oh, ow).
random_crop_or_pad_image_and_label(img, lbl, ch, cw, ign, oh, ow) ==
  LET padded == image_and_label_pad(img, lbl, ch, cw, ign)
      crop   == crop_window(padded, CropSize(ch, cw), oh, ow)
  IN  [image |-> slice_channels(crop, 0, 3),
       label |-> RestoreLabel(slice_channels(crop, 3, 4), ign)]

(***************************************************************************)
(* random_flip_left_right_image_and_label                                  *)
(***************************************************************************)
mirror_cond(u) == u < 50

FlipLabelIndependently(img, lbl, u) ==
  [image |-> IF mirror_cond(u) THEN reverse_width(img) ELSE img,
   label |-> IF u < 25 THEN reverse_width(lbl) ELSE lbl]
random_flip_left_right_image_and_label(img, lbl, u) ==
  [image |-> IF mirror_cond(u) THEN reverse_width(img) ELSE img,
   label |-> IF mirror_cond(u) THEN reverse_width(lbl) ELSE lbl]

(***************************************************************************)
(* Preprocessing inputs and actions                                        *)
(***************************************************************************)
\* A three-channel image whose pixel values name their own position, so
\* that the source of every output pixel can be read back.
PositionImage(h, w) ==
  [i \in 1..h |-> [j \in 1..w |-> <<i, j, 10 * i + j>>]]

\* Label tensors: one whose class ids name their position, one that holds
\* the usual ignore label 255 everywhere, one that mixes both.
LabelTensors(h, w) ==
  { [i \in 1..h |-> [j \in 1..w |-> <<10 * i + j>>]],
    [i \in 1..h |-> [j \in 1..w |-> <<255>>]],
    [i \in 1..h |-> [j \in 1..w |-> <<IF j = 1 THEN i ELSE 255>>]] }

PreInit ==
  /\ \E h \in 1..MaxDim, w \in 1..MaxDim :
       /\ image = PositionImage(h, w)
       /\ label \in LabelTensors(h, w)
  /\ in_image = image
  /\ in_label = label
  /\ op = "none"
  /\ called = {}
  /\ crop_height = 0 /\ crop_width = 0 /\ ignore_label = 0
  /\ offset_h = 0 /\ offset_w = 0
  /\ uniform_random = 0

\* The input pipeline calls each function once, in either order.
RandomCropOrPad ==
  /\ "crop" \notin called
  /\ \E ch \in 1..MaxDim, cw \in 1..MaxDim, ign \in IgnoreLabels :
       LET padded == image_and_label_pad(image, label, ch, cw, ign)
           size   == CropSize(ch, cw)
       IN  \* tf.random_crop asserts that the value is at least as large as
           \* the size, then draws each offset in [0, extent - size].
           /\ Height(padded) >= size[1] /\ Width(padded) >= size[2]
           /\ \E oh \in 0..(Height(padded) - size[1]),
                 ow \in 0..(Width(padded) - size[2]) :
                LET r == random_crop_or_pad_image_and_label(
                           image, label, ch, cw, ign, oh, ow)
                IN  /\ image' = r.image
                    /\ label' = r.label
                    /\ offset_h' = oh
                    /\ offset_w' = ow
           /\ crop_height' = ch
           /\ crop_width' = cw
           /\ ignore_label' = ign
  /\ in_image' = image
  /\ in_label' = label
  /\ op' = "crop"
  /\ called' = called \cup {"crop"}
  /\ UNCHANGED uniform_random
  /\ UNCHANGED bn_vars

RandomFlipLeftRight ==
  /\ "flip" \notin called
  /\ \E u \in UniformDraws :
       LET r == random_flip_left_right_image_and_label(image, label, u)
       IN  /\ image' = r.image
           /\ label' = r.label
           /\ uniform_random' = u
  /\ in_image' = image
  /\ in_label' = label
  /\ op' = "flip"
  /\ called' = called \cup {"flip"}
  /\ UNCHANGED <<crop_height, crop_width, ignore_label, offset_h, offset_w>>
  /\ UNCHANGED bn_vars

(***************************************************************************)
(* Exact rationals <<n, d>>, d > 0, in lowest terms                        *)
(***************************************************************************)
RECURSIVE GCD(_, _)
GCD(a, b) == IF b = 0 THEN a ELSE GCD(b, a % b)

Rat(n, d) ==
  LET g == GCD(Abs(n), Abs(d))
      s == IF d < 0 THEN -1 ELSE 1
  IN  <<(s * n) \div g, (s * d) \div g>>

RInt(n)    == <<n, 1>>
RAdd(a, b) == Rat(a[1] * b[2] + b[1] * a[2], a[2] * b[2])
RSub(a, b) == Rat(a[1] * b[2] - b[1] * a[2], a[2] * b[2])
RMul(a, b) == Rat(a[1] * b[1], a[2] * b[2])
RSquare(a) == RMul(a, a)
RLeq(a, b) == a[1] * b[2] <= b[1] * a[2]
RLess(a, b) == a[1] * b[2] < b[1] * a[2]

RECURSIVE SeqSum(_)
SeqSum(s) == IF s = <<>> THEN 0 ELSE Head(s) + SeqSum(Tail(s))

(***************************************************************************)
(* Bounds and argument values of the batch-norm model                      *)
(***************************************************************************)
MaxDev   == 2      \* num_dev ranges over 1..MaxDev
MaxBatches == 2    \* batches the driver feeds in total, one per replica and step

\* Batches fed to a replica (one channel, flattened over axes 0, 1, 2).
Batches       == {<<1, 1>>, <<-1, 2>>}
DeviceIds     == {0, 1, 10}                 \* GPU indices of the tower devices
Decays        == {<<1, 2>>, <<9, 10>>}
Epsilon       == <<1, 1000>>                \* _BATCH_NORM_EPSILON
UpdatesCollectionChoices == {"None", "update_ops"}
ScopeName     == "BatchNorm"
UpdateOpNames == {"moving_mean", "moving_variance"}

\* Variable values: the initializers of the four tf.get_variable calls, or
\* values restored into the same variables from a checkpoint.
Initializers == [gamma |-> RInt(1), beta |-> RInt(0),
                 moving_mean |-> RInt(0), moving_var |-> RInt(1)]
Restored     == [gamma |-> RInt(2), beta |-> RInt(1),
                 moving_mean |-> RInt(1), moving_var |-> RInt(3)]

Replicas == 1..cfg.num_dev

(***************************************************************************)
(* Graph construction of batch_norm                                        *)
(***************************************************************************)
\* if is_training and trainable:
TrainPathIgnoringTrainable(r) == is_training[r]
TrainPath(r) == is_training[r] /\ cfg.trainable

\* str(index) as a sequence of decimal digits, e.g. <<1, 0>> for GPU:10.
RECURSIVE Digits(_)
Digits(d) == IF d < 10 THEN <<d>> ELSE Append(Digits(d \div 10), d % 10)

\* outputs.device, the device string, ends with the device index.
DeviceString(r) == <<"/", "d", "e", "v", "i", "c", "e", ":", "G", "P", "U", ":">>
                     \o Digits(device[r])

\* if int(outputs.device[-1]) == 0:
CreatesUpdates(r) ==
  LET d == DeviceString(r) IN TrainPath(r) /\ d[Len(d)] = 0

\* The assign ops the replica creates.
UpdateOps(r) == IF CreatesUpdates(r) THEN UpdateOpNames ELSE {}

\* updates_collections is None: the ops are control dependencies of outputs.
ControlDeps(r) ==
  IF cfg.updates_collections = "None" THEN UpdateOps(r) ELSE {}

\* otherwise: tf.add_to_collections(updates_collections, op)
Collection ==
  IF cfg.updates_collections = "None" THEN {}
  ELSE {<<r, o>> : r \in {q \in Replicas : UpdateOps(q) # {}}, o \in UpdateOpNames}

\* shared_name + '_NCCL_mean', shared_name + '_NCCL_mean_square'
SharedName(t) == ScopeName \o "_NCCL_" \o t

ReducedTensors == {"mean", "mean_square"}
SharedNames    == {SharedName(t) : t \in ReducedTensors}

(***************************************************************************)
(* Statistics                                                              *)
(***************************************************************************)
\* tf.reduce_mean(inputs, axis=red_axises)
reduce_mean(x) == Rat(SeqSum(x), Len(x))

square(x) == [i \in 1..Len(x) |-> x[i] * x[i]]

\* tf.nn.moments(inputs, red_axises)
nn_moments(x) ==
  LET m == reduce_mean(x)
      dev2 == [i \in 1..Len(x) |-> RSquare(RSub(RInt(x[i]), m))]
      RECURSIVE RSum(_)
      RSum(s) == IF s = <<>> THEN RInt(0) ELSE RAdd(Head(s), RSum(Tail(s)))
  IN  [mean |-> m, var |-> RMul(RSum(dev2), Rat(1, Len(x)))]

\* The local tensor a replica hands to the all-reduce of tensor t.
LocalStat(r, t) ==
  IF t = "mean" THEN reduce_mean(inputs[r]) ELSE reduce_mean(square(inputs[r]))

RECURSIVE SumContributions(_)
SumContributions(S) ==
  IF S = {} THEN RInt(0)
  ELSE LET c == CHOOSE c \in S : TRUE
       IN  RAdd(c[3], SumContributions(S \ {c}))

\* The num_devices argument of both nccl_all_reduce calls.
NumDevicesArgShort == cfg.num_dev - 1
NumDevicesArg == cfg.num_dev

\* nccl_all_reduce(reduction='sum', num_devices=...): the reduction
\* completes once num_devices participants have contributed.
AllReduceComplete(name) == Cardinality(nccl[name]) >= NumDevicesArg

\* nccl_all_reduce(...) * (1.0 / num_dev)
ScaledAllReduceUnscaled(name) == SumContributions(nccl[name])
ScaledAllReduce(name) ==
  RMul(SumContributions(nccl[name]), Rat(1, cfg.num_dev))

\* var = batch_mean_square - tf.square(batch_mean)
VarFromMomentsSwapped(batch_mean, batch_mean_square) ==
  RSub(RSquare(batch_mean), batch_mean_square)
VarFromMoments(batch_mean, batch_mean_square) ==
  RSub(batch_mean_square, RSquare(batch_mean))

\* tf.nn.batch_normalization(x, mean, variance, offset, scale, eps) for one
\* element: the value  num / sqrt(rad) + shift  kept in exact form.
nn_batch_normalization(x, mean, variance, offset, scale, eps) ==
  [num   |-> RMul(RSub(RInt(x), mean), scale),
   rad   |-> RAdd(variance, eps),
   shift |-> offset]

\* tf.nn.fused_batch_norm(x, scale, offset, mean, variance, epsilon,
\* is_training=False) for one element, in the same exact form.
fused_batch_norm_inference(x, scale, offset, mean, variance, eps) ==
  [num   |-> RMul(RSub(RInt(x), mean), scale),
   rad   |-> RAdd(variance, eps),
   shift |-> offset]

\* moving * decay + batch * (1 - decay)
MovingAverage(moving, batch, decay) ==
  RAdd(RMul(moving, decay), RMul(batch, RSub(RInt(1), decay)))

Moving(o) == IF o = "moving_mean" THEN moving_mean ELSE moving_var
Batch(r, o) == IF o = "moving_mean" THEN stats[r][1].mean ELSE stats[r][1].var

(***************************************************************************)
(* Batch-norm state machine                                                *)
(***************************************************************************)
NoPending == [o \in UpdateOpNames |-> None]

BNInit ==
  /\ \E n \in 1..MaxDev, d \in Decays, uc \in UpdatesCollectionChoices,
        sc \in BOOLEAN, tr \in BOOLEAN :
       cfg = [num_dev |-> n, decay |-> d, epsilon |-> Epsilon,
              updates_collections |-> uc, scale |-> sc, trainable |-> tr]
  /\ is_training \in [Replicas -> BOOLEAN]
  \* Tower r is placed on its own device, in increasing index order.
  /\ device \in {f \in [Replicas -> DeviceIds] :
                   \A a, b \in Replicas : a < b => f[a] < f[b]}
  /\ \E v \in {Initializers, Restored} :
       /\ gamma = v.gamma
       /\ beta = v.beta
       /\ moving_mean = v.moving_mean
       /\ moving_var = v.moving_var
  /\ inputs = [r \in Replicas |-> None]
  /\ nccl = [n \in SharedNames |-> {}]
  /\ stats = [r \in Replicas |-> None]
  /\ pending = [r \in Replicas |-> NoPending]
  /\ assigned = [r \in Replicas |-> {}]
  /\ step_start = [moving_mean |-> moving_mean, moving_var |-> moving_var]
  /\ outputs = [r \in Replicas |-> None]
  /\ step = 0

StepFinished == \A r \in Replicas : outputs[r] # None

\* The driver starts a step: every replica is fed a batch.
DriverRunStep ==
  /\ (step + 1) * cfg.num_dev <= MaxBatches
  /\ step = 0 \/ StepFinished
  /\ inputs' \in [Replicas -> Batches]
  /\ nccl' = [n \in SharedNames |-> {}]
  /\ stats' = [r \in Replicas |-> None]
  /\ pending' = [r \in Replicas |-> NoPending]
  /\ assigned' = [r \in Replicas |-> {}]
  /\ outputs' = [r \in Replicas |-> None]
  /\ step_start' = [moving_mean |-> moving_mean, moving_var |-> moving_var]
  /\ step' = step + 1
  /\ UNCHANGED <<cfg, is_training, device, gamma, beta, moving_mean,
                 moving_var>>
  /\ UNCHANGED pre_vars

\* One nccl_all_reduce op of a replica receives its input.
Contribute(r, t) ==
  /\ TrainPath(r) /\ cfg.num_dev # 1
  /\ inputs[r] # None
  /\ \A c \in nccl[SharedName(t)] : ~(c[1] = r /\ c[2] = t)
  /\ nccl' = [nccl EXCEPT ![SharedName(t)] = @ \cup {<<r, t, LocalStat(r, t)>>}]
  /\ UNCHANGED <<cfg, is_training, device, gamma, beta, moving_mean,
                 moving_var, inputs, stats, pending, assigned, step_start,
                 outputs, step>>
  /\ UNCHANGED pre_vars

Contributed(r, t) == \E c \in nccl[SharedName(t)] : c[1] = r /\ c[2] = t

\* mean and var of the training path become available.
ComputeStats(r) ==
  /\ TrainPath(r)
  /\ inputs[r] # None
  /\ stats[r] = None
  /\ IF cfg.num_dev = 1
       THEN stats' = [stats EXCEPT ![r] = <<nn_moments(inputs[r])>>]
       ELSE /\ \A t \in ReducedTensors :
                 Contributed(r, t) /\ AllReduceComplete(SharedName(t))
            /\ LET batch_mean == ScaledAllReduce(SharedName("mean"))
                   batch_mean_square == ScaledAllReduce(SharedName("mean_square"))
               IN  stats' = [stats EXCEPT ![r] =
                     <<[mean |-> batch_mean,
                        var  |-> VarFromMoments(batch_mean, batch_mean_square)]>>]
  /\ UNCHANGED <<cfg, is_training, device, gamma, beta, moving_mean,
                 moving_var, inputs, nccl, pending, assigned, step_start,
                 outputs, step>>
  /\ UNCHANGED pre_vars

\* The value tensor of an assign op is computed: it reads the variable.
ComputeUpdateValue(r, o) ==
  /\ o \in UpdateOps(r)
  /\ stats[r] # None
  /\ pending[r][o] = None
  /\ o \notin assigned[r]
  /\ pending' = [pending EXCEPT ![r][o] =
                   MovingAverage(Moving(o), Batch(r, o), cfg.decay)]
  /\ UNCHANGED <<cfg, is_training, device, gamma, beta, moving_mean,
                 moving_var, inputs, nccl, stats, assigned, step_start,
                 outputs, step>>
  /\ UNCHANGED pre_vars

Assign(r, o) ==
  /\ pending[r][o] # None
  /\ o \notin assigned[r]
  /\ IF o = "moving_mean"
       THEN moving_mean' = pending[r][o] /\ UNCHANGED moving_var
       ELSE moving_var' = pending[r][o] /\ UNCHANGED moving_mean
  /\ assigned' = [assigned EXCEPT ![r] = @ \cup {o}]
  /\ UNCHANGED <<cfg, is_training, device, gamma, beta, inputs, nccl, stats,
                 pending, step_start, outputs, step>>
  /\ UNCHANGED pre_vars

\* tf.assign run as a control dependency of the returned tensor.
RunControlDependency(r, o) == o \in ControlDeps(r) /\ Assign(r, o)

\* tf.assign run by the driver out of the updates collection.
DriverRunUpdateOp(r, o) == <<r, o>> \in Collection /\ Assign(r, o)

\* The tensor batch_norm returns becomes available.
Output(r) ==
  /\ inputs[r] # None
  /\ outputs[r] = None
  /\ IF TrainPath(r)
       THEN /\ stats[r] # None
            /\ ControlDeps(r) \subseteq assigned[r]
            /\ outputs' = [outputs EXCEPT ![r] =
                 [i \in 1..Len(inputs[r]) |->
                    nn_batch_normalization(inputs[r][i], stats[r][1].mean,
                      stats[r][1].var, beta, gamma, cfg.epsilon)]]
       ELSE outputs' = [outputs EXCEPT ![r] =
                 [i \in 1..Len(inputs[r]) |->
                    fused_batch_norm_inference(inputs[r][i], gamma, beta,
                      moving_mean, moving_var, cfg.epsilon)]]
  /\ UNCHANGED <<cfg, is_training, device, gamma, beta, moving_mean,
                 moving_var, inputs, nccl, stats, pending, assigned,
                 step_start, step>>
  /\ UNCHANGED pre_vars

(***************************************************************************)
(* Specifications                                                          *)
(***************************************************************************)
\* Batch-norm variables while the preprocessing pipeline runs.
BNIdle ==
  /\ cfg = [num_dev |-> 1, decay |-> <<1, 2>>, epsilon |-> Epsilon,
            updates_collections |-> "None", scale |-> FALSE, trainable |-> TRUE]
  /\ is_training = [r \in 1..1 |-> TRUE]
  /\ device = [r \in 1..1 |-> 0]
  /\ gamma = Initializers.gamma /\ beta = Initializers.beta
  /\ moving_mean = Initializers.moving_mean
  /\ moving_var = Initializers.moving_var
  /\ inputs = [r \in 1..1 |-> None]
  /\ nccl = [n \in SharedNames |-> {}]
  /\ stats = [r \in 1..1 |-> None]
  /\ pending = [r \in 1..1 |-> NoPending]
  /\ assigned = [r \in 1..1 |-> {}]
  /\ step_start = [moving_mean |-> moving_mean, moving_var |-> moving_var]
  /\ outputs = [r \in 1..1 |-> None]
  /\ step = 0

\* Preprocessing variables while batch norm runs.
PreIdle ==
  /\ image = PositionImage(1, 1)
  /\ label = <<<< <<255>> >>>>
  /\ in_image = image
  /\ in_label = label
  /\ op = "none"
  /\ called = {"crop", "flip"}
  /\ crop_height = 0 /\ crop_width = 0 /\ ignore_label = 0
  /\ offset_h = 0 /\ offset_w = 0
  /\ uniform_random = 0

PreNext == RandomCropOrPad \/ RandomFlipLeftRight

BNNext ==
  \/ DriverRunStep
  \/ \E r \in Replicas, t \in ReducedTensors : Contribute(r, t)
  \/ \E r \in Replicas : ComputeStats(r)
  \/ \E r \in Replicas, o \in UpdateOpNames : ComputeUpdateValue(r, o)
  \/ \E r \in Replicas, o \in UpdateOpNames : RunControlDependency(r, o)
  \/ \E r \in Replicas, o \in UpdateOpNames : DriverRunUpdateOp(r, o)
  \/ \E r \in Replicas : Output(r)

InitPre == PreInit /\ BNIdle
InitBN  == BNInit /\ PreIdle

SpecPre == InitPre /\ [][PreNext]_vars
SpecBN  == InitBN /\ [][BNNext]_vars

(***************************************************************************)
(* Properties of the preprocessing functions                               *)
(***************************************************************************)
HasShape(t, h, w, c) ==
  /\ Len(t) = h
  /\ \A i \in 1..h : Len(t[i]) = w
  /\ \A i \in 1..h : \A j \in 1..w : Len(t[i][j]) = c

\* C1: whatever the input extent, the crop/pad call returns an image of
\* shape [crop_height, crop_width, 3] and a label of shape
\* [crop_height, crop_width, 1].
C1_CropShape ==
  op = "crop" =>
    /\ HasShape(image, crop_height, crop_width, 3)
    /\ HasShape(label, crop_height, crop_width, 1)

\* The input was shorter than the crop and wider than it.
C1_Witness ==
  /\ op = "crop"
  /\ Height(in_image) < crop_height
  /\ Width(in_image) > crop_width

\* C6: a flip call reverses both image and label along the width axis or
\* returns both unchanged; it never flips exactly one of them.
C6_FlipCoupled ==
  op = "flip" =>
    \/ image = reverse_width(in_image) /\ label = reverse_width(in_label)
    \/ image = in_image /\ label = in_label

\* A call that did flip an image and a label that are not symmetric.
C6_Witness ==
  /\ op = "flip"
  /\ uniform_random < 50
  /\ image # in_image
  /\ label # in_label
  /\ label = reverse_width(in_label)

\* Output position (i, j) of a crop comes from inside the input extent.
FromInput(i, j) ==
  /\ offset_h + i <= Height(in_image)
  /\ offset_w + j <= Width(in_image)

BuiltForTraining(r) == is_training[r] /\ cfg.trainable

Contributors(t) == {c[1] : c \in {k \in nccl[SharedName(t)] : k[2] = t}}

\* C2: only the replica on device 0 creates the moving-average updates, so
\* no replica on another device computes or assigns one and at most one
\* replica writes the moving statistics in a step.
C2_OnlyDeviceZeroUpdates ==
  /\ \A r \in Replicas :
       device[r] # 0 => pending[r] = NoPending /\ assigned[r] = {}
  /\ Cardinality({r \in Replicas : assigned[r] # {}}) <= 1

\* The output of inference mode for input element x.
InferenceValue(x) ==
  [num   |-> RMul(RSub(RInt(x), moving_mean), gamma),
   rad   |-> RAdd(moving_var, Epsilon),
   shift |-> beta]

C3_InferenceState ==
  \A r \in Replicas :
    ~BuiltForTraining(r) =>
      /\ stats[r] = None
      /\ \A n \in SharedNames : \A c \in nccl[n] : c[1] # r
      /\ pending[r] = NoPending
      /\ assigned[r] = {}
      /\ outputs[r] # None =>
           /\ Len(outputs[r]) = Len(inputs[r])
           /\ \A i \in 1..Len(inputs[r]) :
                outputs[r][i] = InferenceValue(inputs[r][i])

C3_InferenceFrame ==
  (\A r \in Replicas : ~BuiltForTraining(r)) =>
     UNCHANGED <<gamma, beta, moving_mean, moving_var>>

\* C3: a replica called with is_training=false or trainable=false computes
\* no batch statistics, joins no all-reduce, creates no update, returns for
\* each element a value of that element and the stored parameters only, and
\* the calls leave gamma, beta, moving_mean and moving_variance unchanged.
C3_InferencePure == []C3_InferenceState /\ [][C3_InferenceFrame]_vars

\* A second call with is_training=true and trainable=false has returned,
\* on restored parameters.
C3_Witness ==
  /\ step = 2
  /\ is_training[1] /\ ~cfg.trainable
  /\ gamma = Restored.gamma
  /\ outputs[1] # None

LocalMean(r)       == Rat(SeqSum(inputs[r]), Len(inputs[r]))
LocalMeanSquare(r) ==
  Rat(SeqSum([i \in 1..Len(inputs[r]) |-> inputs[r][i] * inputs[r][i]]),
      Len(inputs[r]))

RECURSIVE SumOfLocalMeans(_)
SumOfLocalMeans(n) ==
  IF n = 0 THEN RInt(0) ELSE RAdd(LocalMean(n), SumOfLocalMeans(n - 1))

RECURSIVE SumOfLocalMeanSquares(_)
SumOfLocalMeanSquares(n) ==
  IF n = 0 THEN RInt(0)
  ELSE RAdd(LocalMeanSquare(n), SumOfLocalMeanSquares(n - 1))

CrossDeviceMean ==
  RMul(SumOfLocalMeans(cfg.num_dev), Rat(1, cfg.num_dev))
CrossDeviceVar ==
  RSub(RMul(SumOfLocalMeanSquares(cfg.num_dev), Rat(1, cfg.num_dev)),
       RSquare(CrossDeviceMean))

\* C4: with num_dev > 1 every replica normalizes with the same statistics,
\* mean = (sum of local means) / num_dev and
\* var = (sum of local means of squares) / num_dev - mean^2.
C4_SameStatistics ==
  \A r \in Replicas :
    (cfg.num_dev > 1 /\ stats[r] # None) =>
      /\ stats[r][1].mean = CrossDeviceMean
      /\ stats[r][1].var = CrossDeviceVar
      /\ outputs[r] # None =>
           \A i \in 1..Len(inputs[r]) :
             /\ outputs[r][i].num =
                  RMul(RSub(RInt(inputs[r][i]), CrossDeviceMean), gamma)
             /\ outputs[r][i].rad = RAdd(CrossDeviceVar, Epsilon)

\* Two replicas fed different batches have both returned.
C4_Witness ==
  /\ cfg.num_dev > 1
  /\ inputs[1] # inputs[2]
  /\ \A r \in Replicas : outputs[r] # None

\* C5: with num_dev > 1 a training replica feeds two all-reduces under
\* distinct shared names and gets statistics and output only after all
\* num_dev replicas have contributed to both; when fewer than num_dev
\* replicas take the training path, none of them ever completes.
C5_Barrier ==
  /\ SharedName("mean") # SharedName("mean_square")
  /\ \A r \in Replicas :
       (cfg.num_dev > 1 /\ BuiltForTraining(r)
          /\ (stats[r] # None \/ outputs[r] # None)) =>
         \A t \in ReducedTensors : Contributors(t) = Replicas
  /\ (cfg.num_dev > 1
        /\ Cardinality({r \in Replicas : BuiltForTraining(r)}) < cfg.num_dev) =>
       \A r \in Replicas :
         BuiltForTraining(r) => stats[r] = None /\ outputs[r] = None

\* One replica was built for inference and has returned; the training
\* replica has fed both reductions and waits.
C5_Witness ==
  /\ cfg.num_dev = 2
  /\ BuiltForTraining(1) /\ ~BuiltForTraining(2)
  /\ \A t \in ReducedTensors : Contributors(t) = {1}
  /\ outputs[2] # None
  /\ outputs[1] = None

\* C8: on an updating replica with updates_collections None the output is
\* usable only after both assignments, and after the step moving_mean and
\* moving_variance hold running*decay + batch*(1-decay) of their values at
\* the start of the step; otherwise the forward pass leaves them unchanged.
C8_UpdateOrdering ==
  \A r \in Replicas :
    (BuiltForTraining(r) /\ device[r] = 0 /\ outputs[r] # None) =>
      IF cfg.updates_collections = "None"
        THEN /\ assigned[r] = UpdateOpNames
             /\ StepFinished =>
                  /\ moving_mean = MovingAverage(step_start.moving_mean,
                                     stats[r][1].mean, cfg.decay)
                  /\ moving_var = MovingAverage(step_start.moving_var,
                                    stats[r][1].var, cfg.decay)
        ELSE (\A q \in Replicas : assigned[q] = {}) =>
               /\ moving_mean = step_start.moving_mean
               /\ moving_var = step_start.moving_var

\* C9: with scale=False the output is (x - mean) / sqrt(var + epsilon) + beta
\* whatever gamma is, in training and in inference mode.
C9_ScaleOption ==
  \A r \in Replicas :
    (~cfg.scale /\ outputs[r] # None) =>
      \A i \in 1..Len(inputs[r]) :
        LET mean == IF BuiltForTraining(r) THEN stats[r][1].mean
                    ELSE moving_mean
        IN  /\ outputs[r][i].num = RSub(RInt(inputs[r][i]), mean)
            /\ outputs[r][i].shift = beta

\* C10: with num_dev > 1 the variance handed to the normalization is
\* non-negative, so var + epsilon is positive.
C10_VarianceNonNegative ==
  \A r \in Replicas :
    (cfg.num_dev > 1 /\ stats[r] # None) =>
      /\ RLeq(RInt(0), stats[r][1].var)
      /\ outputs[r] # None =>
           \A i \in 1..Len(outputs[r]) : RLess(RInt(0), outputs[r][i].rad)

\* Every replica was fed the same constant batch: the variance is zero.
C10_Witness ==
  /\ cfg.num_dev > 1
  /\ \A r \in Replicas : outputs[r] # None /\ stats[r] # None
  /\ stats[1][1].var = RInt(0)

====
